---- MODULE Spec2Model ----
(***************************************************************************)
(* The SMTP provider of notifiers (src/notifiers/providers/email.py): the  *)
(* provider instance with its two fields smtp_server and configuration,    *)
(* the pipeline merge defaults -> validate -> _prepare_data ->             *)
(* _send_notification, and the transport and file collaborators as an      *)
(* environment that may fail any call it is asked to make.                 *)
(***************************************************************************)
EXTENDS Integers, Sequences, FiniteSets, TLC

VARIABLES smtp_server, configuration, prev, last, nd,
          unreleased, pc, lock, exclusive, delivered

vars == <<smtp_server, configuration, prev, last, nd,
          unreleased, pc, lock, exclusive, delivered>>

\* what the callers that share the instance add to its state
concvars == <<pc, lock, exclusive, delivered>>

(***************************************************************************)
(* Bounds of the model.                                                    *)
(***************************************************************************)
\* applications of _prepare_data to one request
MaxApply == 2

(***************************************************************************)
(* Values.  A Python dict is a function whose DOMAIN is its key set.  A    *)
(* string that the code may also meet as a list is tagged with its type,   *)
(* its characters kept as a sequence.                                      *)
(***************************************************************************)
Str(s) == [kind |-> "str", v |-> s]
List(l) == [kind |-> "list", v |-> l]

\* Python's isinstance(x, list)
IsList(x) == x.kind = "list"

\* Python truthiness of a str or list value
Truthy(x) == Len(x.v) > 0

Has(data, k) == k \in DOMAIN data

\* dict.get(k) is truthy: the key is present and its string is not empty
GetStr(data, k) == IF Has(data, k) THEN data[k] ELSE ""

DEFAULT_SUBJECT == "New email from 'notifiers'!"
DEFAULT_FROM == "user@fqdn"
DEFAULT_SMTP_HOST == "localhost"
DEFAULT_PORT == 25

\* the defaults without an entry for tls
defaults_no_tls ==
  [subject |-> DEFAULT_SUBJECT, from |-> DEFAULT_FROM, host |-> DEFAULT_SMTP_HOST,
   port |-> DEFAULT_PORT, ssl |-> FALSE, html |-> FALSE]

defaults ==
  [subject |-> DEFAULT_SUBJECT, from |-> DEFAULT_FROM, host |-> DEFAULT_SMTP_HOST,
   port |-> DEFAULT_PORT, tls |-> FALSE, ssl |-> FALSE, html |-> FALSE]

\* the schema's "dependencies": a field present requires these fields present
dependencies ==
  [username |-> {"password"}, password |-> {"username"}, ssl |-> {"tls"}]

required == {"message", "to", "username", "password"}

(***************************************************************************)
(* Defaults Merger and Schema Validator (core of the package).             *)
(***************************************************************************)
merge_defaults(raw) ==
  [k \in (DOMAIN defaults) \cup (DOMAIN raw) |->
     IF k \in DOMAIN raw THEN raw[k] ELSE defaults[k]]

MissingRequired(data) == required \ DOMAIN data

\* the dependency violations of data: <<field, missing counterpart>>
DependencyViolations(data) ==
  {p \in (DOMAIN dependencies) \X {"username", "password", "tls"} :
     /\ p[1] \in DOMAIN data
     /\ p[2] \in dependencies[p[1]]
     /\ p[2] \notin DOMAIN data}

\* the "email" format of "from" and "from_": the empty string is no address
is_email(s) == s \in {"f1@x", "f2@x"}

validate(data) ==
  IF MissingRequired(data) # {} THEN "required"
  ELSE IF DependencyViolations(data) # {} THEN "dependency"
  ELSE "ok"

(***************************************************************************)
(* Request Normalizer.                                                     *)
(***************************************************************************)
RECURSIVE Join(_, _)
Join(l, sep) ==
  IF Len(l) = 0 THEN <<>>
  ELSE IF Len(l) = 1 THEN l[1]
  ELSE l[1] \o sep \o Join(Tail(l), sep)

\* ",".join(list_)
list_to_commas(x) == Str(Join(x.v, <<",">>))

\* ",".join applied to a str joins its characters
JoinChars(x) == Str(Join([i \in 1..Len(x.v) |-> <<x.v[i]>>], <<",">>))

Pop(data, k) == [j \in (DOMAIN data) \ {k} |-> data[j]]

Put(data, k, val) ==
  [j \in (DOMAIN data) \cup {k} |-> IF j = k THEN val ELSE data[j]]

prepare_to(data) ==
  IF IsList(data["to"]) THEN Put(data, "to", list_to_commas(data["to"])) ELSE data

\* the alias only fills in a missing "from": the canonical field wins
prepare_from_keep_canonical(data) ==
  IF GetStr(data, "from_") # ""
  THEN IF Has(data, "from") THEN Pop(data, "from_")
       ELSE Put(Pop(data, "from_"), "from", data["from_"])
  ELSE data

prepare_from(data) ==
  IF GetStr(data, "from_") # ""
  THEN Put(Pop(data, "from_"), "from", data["from_"])
  ELSE data

\* the isinstance test dropped: the join also runs on a str
prepare_data_join_always(data) ==
  prepare_from(Put(data, "to",
     IF IsList(data["to"]) THEN list_to_commas(data["to"]) ELSE JoinChars(data["to"])))

prepare_data(data) == prepare_from(prepare_to(data))

(***************************************************************************)
(* Transport collaborator.  A handle is one smtplib client object: conn is *)
(* whether its socket is connected and open, target the (host, port) its   *)
(* connect reached, mode how the connection is protected, auth the         *)
(* credentials the server accepted on it.  smtp_server = NoServer is None. *)
(***************************************************************************)
NoServer ==
  [id |-> 0, conn |-> FALSE, target |-> <<>>, mode |-> "plain", auth |-> <<>>,
   authFailed |-> FALSE]

NoConfig == <<>>

new_handle(data, id) ==
  [id |-> id, conn |-> FALSE, target |-> <<>>,
   mode |-> IF data["ssl"] THEN "ssl" ELSE "plain", auth |-> <<>>,
   authFailed |-> FALSE]

\* one call made to a collaborator: transport calls carry the handle they are made on
Call(op, h, arg, path, ok) == [op |-> op, h |-> h, arg |-> arg, path |-> path, ok |-> ok]

TransportOps == {"connect", "starttls", "login", "send"}

\* the step of the dispatch the environment fails (i: the index of the file read)
NoFail == [at |-> "none", i |-> 0]

get_configuration(data) == <<data["host"], data["port"], GetStr(data, "username")>>

\* the running state of one _send_notification call: the instance's two
\* fields, the calls made so far, the payload, the exception in flight
Running(srv, cfg) ==
  [srv |-> srv, cfg |-> cfg, calls |-> <<>>, email |-> <<>>, sent |-> <<>>, exc |-> ""]

Raise(r, call, exc) == [r EXCEPT !.calls = Append(@, call), !.exc = exc]

step_connect(r, data, id, fail) ==
  LET h == new_handle(data, id)
      r1 == [r EXCEPT !.srv = h]
  IN  IF fail.at = "connect"
      THEN Raise(r1, Call("connect", id, data["host"], <<>>, FALSE), "OSError")
      ELSE [r1 EXCEPT !.srv = [h EXCEPT !.conn = TRUE,
                                        !.target = <<data["host"], data["port"]>>],
                      !.cfg = get_configuration(data),
                      !.calls = Append(@, Call("connect", id, data["host"], <<>>, TRUE))]

\* the upgrade issued whenever tls is set, ssl or not
step_starttls_ignoring_ssl(r, data, fail) ==
  IF r.exc # "" \/ ~data["tls"] THEN r
  ELSE IF fail.at = "starttls"
  THEN Raise(r, Call("starttls", r.srv.id, "", <<>>, FALSE), "SMTPNotSupportedError")
  ELSE [r EXCEPT !.srv.mode = "starttls",
                 !.calls = Append(@, Call("starttls", r.srv.id, "", <<>>, TRUE))]

step_starttls(r, data, fail) ==
  IF r.exc # "" \/ ~(data["tls"] /\ ~data["ssl"]) THEN r
  ELSE IF fail.at = "starttls"
  THEN Raise(r, Call("starttls", r.srv.id, "", <<>>, FALSE), "SMTPNotSupportedError")
  ELSE [r EXCEPT !.srv.mode = "starttls",
                 !.calls = Append(@, Call("starttls", r.srv.id, "", <<>>, TRUE))]

step_login(r, data, fail) ==
  IF r.exc # "" \/ GetStr(data, "username") = "" THEN r
  ELSE IF fail.at = "login"
  THEN Raise([r EXCEPT !.srv.authFailed = TRUE],
             Call("login", r.srv.id, data["username"], <<>>, FALSE),
             "SMTPAuthenticationError")
  ELSE [r EXCEPT !.srv.auth = <<data["username"], data["password"]>>,
                 !.calls = Append(@, Call("login", r.srv.id, data["username"], <<>>, TRUE))]

connect_to_server(r, data, id, fail) ==
  step_login(step_starttls(step_connect(r, data, id, fail), data, fail), data, fail)

(***************************************************************************)
(* Message Builder and the file collaborator.                              *)
(***************************************************************************)
\* the payload after _build_email: exactly one body part
build_email(r, data) ==
  IF r.exc # "" THEN r ELSE [r EXCEPT !.email = << <<"body">> >>]

\* what "for attachment in data['attachments']" iterates over: the elements
\* of a list, the characters of a str
Items(att) ==
  IF IsList(att) THEN att.v ELSE [i \in 1..Len(att.v) |-> <<att.v[i]>>]

\* an unreadable file is left out and the remaining ones are still attached
RECURSIVE read_from_skip_unreadable(_, _, _, _)
read_from_skip_unreadable(r, items, i, fail) ==
  IF i > Len(items) THEN r
  ELSE IF fail.at = "read" /\ fail.i = i
  THEN read_from_skip_unreadable(
         [r EXCEPT !.calls = Append(@, Call("read", 0, "", items[i], FALSE))],
         items, i + 1, fail)
  ELSE read_from_skip_unreadable(
         [r EXCEPT !.calls = Append(@, Call("read", 0, "", items[i], TRUE)),
                   !.email = Append(@, items[i])],
         items, i + 1, fail)

RECURSIVE read_from(_, _, _, _)
read_from(r, items, i, fail) ==
  IF i > Len(items) THEN r
  ELSE IF fail.at = "read" /\ fail.i = i
  THEN Raise(r, Call("read", 0, "", items[i], FALSE), "OSError")
  ELSE read_from([r EXCEPT !.calls = Append(@, Call("read", 0, "", items[i], TRUE)),
                           !.email = Append(@, items[i])],
                 items, i + 1, fail)

add_attachments(r, data, fail) ==
  IF r.exc # "" \/ ~Has(data, "attachments") \/ ~Truthy(data["attachments"]) THEN r
  ELSE read_from(r, Items(data["attachments"]), 1, fail)

\* a refused payload taken for a lost connection: the session is dropped
send_message_reset_on_refused(r, fail) ==
  IF r.exc # "" THEN r
  ELSE IF ~r.srv.conn
  THEN Raise(r, Call("send", r.srv.id, "", <<>>, FALSE), "SMTPServerDisconnected")
  ELSE IF fail.at = "send_disconnected"
  THEN Raise([r EXCEPT !.srv.conn = FALSE],
             Call("send", r.srv.id, "", <<>>, FALSE), "SMTPServerDisconnected")
  ELSE IF fail.at = "send_refused"
  THEN Raise([r EXCEPT !.srv = NoServer, !.cfg = NoConfig],
             Call("send", r.srv.id, "", <<>>, FALSE), "SMTPSenderRefused")
  ELSE [r EXCEPT !.calls = Append(@, Call("send", r.srv.id, "", <<>>, TRUE)),
                 !.sent = r.email]

\* a transmit the server drops is attempted a second time
send_message_retry_once(r, fail) ==
  IF r.exc # "" THEN r
  ELSE IF ~r.srv.conn
  THEN Raise(r, Call("send", r.srv.id, "", <<>>, FALSE), "SMTPServerDisconnected")
  ELSE IF fail.at = "send_disconnected"
  THEN [r EXCEPT !.calls = @ \o <<Call("send", r.srv.id, "", <<>>, FALSE),
                                  Call("send", r.srv.id, "", <<>>, TRUE)>>,
                 !.sent = r.email]
  ELSE IF fail.at = "send_refused"
  THEN Raise(r, Call("send", r.srv.id, "", <<>>, FALSE), "SMTPSenderRefused")
  ELSE [r EXCEPT !.calls = Append(@, Call("send", r.srv.id, "", <<>>, TRUE)),
                 !.sent = r.email]

\* send_message on the held handle; a handle whose socket is not connected
\* raises SMTPServerDisconnected itself, and one the server drops is closed
send_message(r, fail) ==
  IF r.exc # "" THEN r
  ELSE IF ~r.srv.conn
  THEN Raise(r, Call("send", r.srv.id, "", <<>>, FALSE), "SMTPServerDisconnected")
  ELSE IF fail.at = "send_disconnected"
  THEN Raise([r EXCEPT !.srv.conn = FALSE],
             Call("send", r.srv.id, "", <<>>, FALSE), "SMTPServerDisconnected")
  ELSE IF fail.at = "send_refused"
  THEN Raise(r, Call("send", r.srv.id, "", <<>>, FALSE), "SMTPSenderRefused")
  ELSE [r EXCEPT !.calls = Append(@, Call("send", r.srv.id, "", <<>>, TRUE)),
                 !.sent = r.email]

(***************************************************************************)
(* Response/Error Mapper: the except clause of _send_notification.         *)
(* socket.error and IOError are OSError; every smtplib exception derives   *)
(* from OSError.                                                           *)
(***************************************************************************)
OSErrorFamily ==
  {"OSError", "SMTPServerDisconnected", "SMTPSenderRefused", "SMTPAuthenticationError",
   "SMTPNotSupportedError"}

Subclasses(c) == IF c = "OSError" THEN OSErrorFamily ELSE {c}

\* only the smtplib classes named, the OS-level ones left out
CaughtClasses_smtp_only ==
  {"SMTPServerDisconnected", "SMTPSenderRefused", "SMTPAuthenticationError"}

CaughtClasses ==
  {"SMTPServerDisconnected", "SMTPSenderRefused", "OSError", "SMTPAuthenticationError"}

IsCaught(exc) == \E c \in CaughtClasses : exc \in Subclasses(c)

\* Response.errors: None, or a list of messages
NoErrors == [none |-> TRUE, list |-> <<>>]
Errors(l) == [none |-> FALSE, list |-> l]

\* the reuse test left out: every dispatch connects
NeedsConnect_always(srv, cfg, data) == TRUE

\* the reuse test of _send_notification
\* the stored identity not compared: any held handle is reused
NeedsConnect_absent_only(srv, cfg, data) == cfg = NoConfig \/ srv.id = 0

\* the password of the held session compared as well
NeedsConnect_password_aware(srv, cfg, data) ==
  \/ cfg = NoConfig \/ srv.id = 0 \/ cfg # get_configuration(data)
  \/ srv.auth # <<GetStr(data, "username"), GetStr(data, "password")>>

NeedsConnect(srv, cfg, data) ==
  cfg = NoConfig \/ srv.id = 0 \/ cfg # get_configuration(data)

send_notification(srv, cfg, data, id, fail) ==
  LET r0 == Running(srv, cfg)
      r1 == IF NeedsConnect(srv, cfg, data)
            THEN connect_to_server(r0, data, id, fail) ELSE r0
      r2 == build_email(r1, data)
      r3 == add_attachments(r2, data, fail)
  IN  send_message(r3, fail)

(***************************************************************************)
(* Dispatcher: merge defaults -> validate -> _prepare_data ->              *)
(* _send_notification -> Response.                                         *)
(***************************************************************************)
\* the format check of a "valid_file" attachment path failing
FormatViolation(data, fail) == fail.at = "valid_file" /\ Has(data, "attachments")

\* the result of one dispatch on an instance whose fields are srv and cfg
dispatch(srv, cfg, raw, id, fail) ==
  LET data0 == merge_defaults(raw)
      checked == IF FormatViolation(data0, fail) THEN "format" ELSE validate(data0)
      data == prepare_data(data0)
      r == send_notification(srv, cfg, data, id, fail)
  IN  IF checked # "ok"
      THEN [srv |-> srv, cfg |-> cfg, valid |-> FALSE, calls |-> <<>>, sent |-> <<>>,
            errors |-> Errors(<<checked>>), raised |-> FALSE]
      ELSE [srv |-> r.srv, cfg |-> r.cfg, valid |-> TRUE, calls |-> r.calls,
            sent |-> r.sent,
            errors |-> IF r.exc = "" THEN NoErrors
                       ELSE IF IsCaught(r.exc) THEN Errors(<<r.exc>>) ELSE NoErrors,
            raised |-> r.exc # "" /\ ~IsCaught(r.exc)]

(***************************************************************************)
(* The requests and the environment's choices explored.                    *)
(***************************************************************************)
Opt(k, present, val) == IF present THEN k :> val ELSE <<>>

Hosts == {"mail.example"}
Credentials == {<<"", "">>, <<"u1", "p1">>}
Flags == {"absent", "true", "false"}
Attachments == {List(<< <<"a">> >>)}
NoAttachments == Str(<<>>)

\* the most files one request has read
MaxRead == 2

\* notify(**raw): "" and "absent" stand for a key the caller leaves out
Request(h, c, t, s, a) ==
     [message |-> "hi", to |-> Str(<<"x">>), username |-> c[1], password |-> c[2]]
  @@ Opt("host", h # "", h)
  @@ Opt("tls", t # "absent", t = "true")
  @@ Opt("ssl", s # "absent", s = "true")
  @@ Opt("attachments", a # NoAttachments, a)

\* requests that differ in their session identity
SessionRequests ==
  {Request(h, c, "absent", "absent", NoAttachments) :
     h \in Hosts \cup {""}, c \in Credentials}

\* requests that differ in the encryption they ask for
SecureRequests ==
  {Request("", c, t, s, NoAttachments) : c \in Credentials, t \in Flags, s \in Flags}

\* requests with and without attachments
FileRequests ==
  {Request(h, c, "absent", "absent", a) :
     h \in Hosts \cup {""}, c \in Credentials, a \in Attachments \cup {NoAttachments}}

\* "attachments" given as one path and as a list of paths
PathChoices ==
  {Str(<<"a", "b">>), List(<< <<"a", "b">> >>),
   List(<< <<"a">>, <<"b">> >>), List(<< <<"b">>, <<"a">> >>)}

AttachRequests ==
  {Request(h, <<"", "">>, "absent", "absent", a) : h \in Hosts \cup {""}, a \in PathChoices}

\* requests of one session identity that differ in password and encryption
Passwords == {"p1", "p2"}

SameIdentityRequests ==
  {Request("", <<"u1", p>>, t, s, NoAttachments) :
     p \in Passwords, t \in {"absent", "true"}, s \in {"absent", "true"}}

FailPoints ==
  {[at |-> a, i |-> 0] :
     a \in {"none", "valid_file", "connect", "starttls", "login",
            "send_disconnected", "send_refused"}}
  \cup {[at |-> "read", i |-> k] : k \in 1..MaxRead}

Count(calls, op) == Cardinality({i \in 1..Len(calls) : calls[i].op = op})

\* the identity of the object a constructor call returns: one that no object
\* the instance or the record of the dispatch refers to has
FreshId(srv) == IF srv.id = 1 THEN 2 ELSE 1

\* what is kept of a dispatch: the request, the state it found, what it did
\* and what it returned
NoLast ==
  [raw |-> <<>>, ident |-> NoConfig, valid |-> FALSE, calls |-> <<>>, sent |-> <<>>,
   errors |-> NoErrors, raised |-> FALSE, pre |-> [srv |-> NoServer, cfg |-> NoConfig]]

\* how a dispatch ended: "ok", "invalid", or the call that failed (a failed
\* transmit told apart by its error)
Outcome(l) ==
  IF ~l.valid THEN "invalid"
  ELSE IF l.raised \/ ~l.errors.none
  THEN LET bad == {i \in 1..Len(l.calls) : ~l.calls[i].ok}
           op == l.calls[CHOOSE i \in bad : TRUE].op
       IN  IF bad = {} THEN "error"
           ELSE IF op # "send" THEN op
           ELSE IF l.errors.list = <<"SMTPServerDisconnected">> THEN "send_disconnected"
           ELSE "send_refused"
  ELSE "ok"

\* what is kept of the dispatch before the last one
Summary(l) ==
  [ident |-> l.ident, outcome |-> Outcome(l),
   fresh |-> l.pre.srv = NoServer /\ l.pre.cfg = NoConfig,
   connects |-> Count(l.calls, "connect"), auths |-> Count(l.calls, "login")]

\* the environment can fail only a step the dispatch gets to: one that the
\* dispatch makes when nothing fails
Reaches(calls, data, fail) ==
  CASE fail.at = "none" -> TRUE
    [] fail.at = "valid_file" -> Has(data, "attachments")
    [] fail.at = "read" ->
         Cardinality({i \in 1..Len(calls) : calls[i].op = "read"}) >= fail.i
    [] fail.at \in {"send_disconnected", "send_refused"} ->
         \E i \in 1..Len(calls) : calls[i].op = "send" /\ calls[i].ok
    [] OTHER -> \E i \in 1..Len(calls) : calls[i].op = fail.at

\* the callers that share one instance
Threads == {1, 2}

\* the payload last transmitted: the identity of its request and the handle used
NoDelivery == [by |-> NoConfig, over |-> NoServer]

Init ==
  /\ smtp_server = NoServer
  /\ configuration = NoConfig
  /\ prev = Summary(NoLast)
  /\ last = NoLast
  /\ nd = <<>>
  /\ unreleased = FALSE
  /\ pc = [t \in Threads |-> "idle"]
  /\ lock = 0
  /\ exclusive = FALSE
  /\ delivered = NoDelivery

\* one call of notify(**raw) on the instance, the environment failing step `fail`
Notify(raw, fail) ==
  /\ Reaches(dispatch(smtp_server, configuration, raw, FreshId(smtp_server), NoFail).calls,
             raw, fail)
  /\ LET o == dispatch(smtp_server, configuration, raw, FreshId(smtp_server), fail)
     IN  /\ smtp_server' = o.srv
         /\ configuration' = o.cfg
         /\ last' = [raw |-> raw, ident |-> get_configuration(merge_defaults(raw)),
                     valid |-> o.valid, calls |-> o.calls, sent |-> o.sent,
                     errors |-> o.errors, raised |-> o.raised,
                     pre |-> [srv |-> smtp_server, cfg |-> configuration]]
  /\ UNCHANGED nd

\* prev is history: it is recorded where a property speaks of two dispatches
Next ==
  \E raw \in SessionRequests, fail \in FailPoints :
    Notify(raw, fail) /\ prev' = Summary(last) /\ UNCHANGED <<unreleased, concvars>>

Spec == Init /\ [][Next]_vars

NextSecure ==
  \E raw \in SecureRequests, fail \in FailPoints :
    Notify(raw, fail) /\ UNCHANGED <<prev, unreleased, concvars>>

SpecSecure == Init /\ [][NextSecure]_vars

NextFiles ==
  \E raw \in FileRequests, fail \in FailPoints :
    Notify(raw, fail) /\ UNCHANGED <<prev, unreleased, concvars>>

SpecFiles == Init /\ [][NextFiles]_vars

\* a handle the instance lets go of while it is connected is closed by nobody:
\* its socket is closed when the object is collected, at once or not at all
NextLive ==
  \E raw \in SessionRequests, fail \in FailPoints, collected \in BOOLEAN :
    /\ Notify(raw, fail)
    /\ unreleased' = \/ unreleased
                      \/ /\ smtp_server.conn
                         /\ Count(last'.calls, "connect") > 0
                         /\ ~collected
    /\ UNCHANGED <<prev, concvars>>

SpecLive == Init /\ [][NextLive]_vars

(***************************************************************************)
(* Two callers inside _send_notification on one instance, a statement at a *)
(* time. Every statement reads self.smtp_server and self.configuration     *)
(* when it runs. Callers that keep exclusive access hold a lock from entry *)
(* to return.                                                              *)
(***************************************************************************)
\* the request of each caller: the two differ in host and in username
ThreadRequest(t) ==
  IF t = 1 THEN Request("", <<"", "">>, "absent", "absent", NoAttachments)
  ELSE Request("mail.example", <<"u1", "p1">>, "absent", "absent", NoAttachments)

ThreadData(t) == prepare_data(merge_defaults(ThreadRequest(t)))

InitConc ==
  /\ smtp_server = NoServer
  /\ configuration = NoConfig
  /\ prev = Summary(NoLast)
  /\ last = NoLast
  /\ nd = <<>>
  /\ unreleased = FALSE
  /\ pc = [t \in Threads |-> "idle"]
  /\ lock = 0
  /\ exclusive \in BOOLEAN
  /\ delivered = NoDelivery

Goto(t, label) == pc' = [pc EXCEPT ![t] = label]

\* the return of _send_notification, by the last statement or by an exception
Leave(t) == Goto(t, "idle") /\ lock' = 0

Enter(t) ==
  /\ pc[t] = "idle"
  /\ exclusive => lock = 0
  /\ lock' = IF exclusive THEN t ELSE 0
  /\ Goto(t, "check")
  /\ UNCHANGED <<smtp_server, configuration, delivered>>

\* lines 154-160: the reuse test
Decide(t) ==
  /\ pc[t] = "check"
  /\ Goto(t, IF NeedsConnect(smtp_server, configuration, ThreadData(t))
             THEN "new" ELSE "send")
  /\ UNCHANGED <<smtp_server, configuration, delivered, lock>>

\* lines 132-134: a new handle is assigned to self.smtp_server
Construct(t) ==
  /\ pc[t] = "new"
  /\ smtp_server' = new_handle(ThreadData(t), FreshId(smtp_server))
  /\ Goto(t, "connect")
  /\ UNCHANGED <<configuration, delivered, lock>>

\* line 136: self.smtp_server.connect(host, port) on the handle held now
Connect(t, ok) ==
  /\ pc[t] = "connect"
  /\ IF ok
     THEN /\ smtp_server' =
               [smtp_server EXCEPT !.conn = TRUE,
                                   !.target = <<ThreadData(t)["host"], ThreadData(t)["port"]>>,
                                   !.auth = <<>>, !.authFailed = FALSE]
          /\ Goto(t, "store")
          /\ UNCHANGED lock
     ELSE Leave(t) /\ UNCHANGED smtp_server
  /\ UNCHANGED <<configuration, delivered>>

\* line 137: the identity is stored; lines 139-141 do nothing without tls
StoreConfiguration(t) ==
  /\ pc[t] = "store"
  /\ configuration' = get_configuration(ThreadData(t))
  /\ Goto(t, IF GetStr(ThreadData(t), "username") # "" THEN "login" ELSE "send")
  /\ UNCHANGED <<smtp_server, delivered, lock>>

\* lines 144-145: self.smtp_server.login(username, password) on the handle held now
Login(t, ok) ==
  /\ pc[t] = "login"
  /\ IF smtp_server.conn /\ ok
     THEN /\ smtp_server' =
               [smtp_server EXCEPT !.auth = <<ThreadData(t)["username"],
                                              ThreadData(t)["password"]>>]
          /\ Goto(t, "send")
          /\ UNCHANGED lock
     ELSE /\ smtp_server' = [smtp_server EXCEPT !.authFailed = smtp_server.conn]
          /\ Leave(t)
  /\ UNCHANGED <<configuration, delivered>>

\* lines 162-167: self.smtp_server.send_message(email) on the handle held now
Transmit(t) ==
  /\ pc[t] = "send"
  /\ delivered' = IF smtp_server.conn
                  THEN [by |-> get_configuration(ThreadData(t)), over |-> smtp_server]
                  ELSE delivered
  /\ Leave(t)
  /\ UNCHANGED <<smtp_server, configuration>>

NextConc ==
  /\ \E t \in Threads :
        \/ Enter(t)
        \/ Decide(t)
        \/ Construct(t)
        \/ \E ok \in BOOLEAN : Connect(t, ok)
        \/ StoreConfiguration(t)
        \/ \E ok \in BOOLEAN : Login(t, ok)
        \/ Transmit(t)
  /\ UNCHANGED <<prev, last, nd, unreleased, exclusive>>

SpecConc == InitConc /\ [][NextConc]_vars

NextReuse ==
  \E raw \in SameIdentityRequests, fail \in FailPoints :
    Notify(raw, fail) /\ prev' = Summary(last) /\ UNCHANGED <<unreleased, concvars>>

SpecReuse == Init /\ [][NextReuse]_vars

NextAttach ==
  \E raw \in AttachRequests, fail \in FailPoints :
    Notify(raw, fail) /\ UNCHANGED <<prev, unreleased, concvars>>

SpecAttach == Init /\ [][NextAttach]_vars

(***************************************************************************)
(* _prepare_data applied again to its own result: nd holds the merged      *)
(* request and the result of each application.                             *)
(***************************************************************************)
ToValues ==
  {Str(<<"x">>), Str(<<"x", "y">>), List(<< <<"x">> >>), List(<< <<"x">>, <<"y">> >>)}
FromValues == {"absent", "f1@x", "f2@x"}
AliasValues == {"absent", "", "f1@x", "f2@x"}

MergedRequests ==
  {    [message |-> "hi", to |-> t]
    @@ Opt("from", f # "absent", f)
    @@ Opt("from_", g # "absent", g)
    : t \in ToValues, f \in FromValues, g \in AliasValues}

InitNorm ==
  /\ smtp_server = NoServer
  /\ configuration = NoConfig
  /\ prev = Summary(NoLast)
  /\ last = NoLast
  /\ nd \in {<<x>> : x \in MergedRequests}
  /\ unreleased = FALSE
  /\ pc = [t \in Threads |-> "idle"]
  /\ lock = 0
  /\ exclusive = FALSE
  /\ delivered = NoDelivery

Normalize ==
  /\ Len(nd) <= MaxApply
  /\ nd' = Append(nd, prepare_data(nd[Len(nd)]))
  /\ UNCHANGED <<smtp_server, configuration, prev, last, unreleased, concvars>>

NextNorm == Normalize

SpecNorm == InitNorm /\ [][NextNorm]_vars

(***************************************************************************)
(* Properties.                                                             *)
(***************************************************************************)
Ops(l, op) == {i \in 1..Len(l.calls) : l.calls[i].op = op}

\* the paths of the files the dispatch read or tried to read, in order
ReadPaths(l) ==
  LET r == SelectSeq(l.calls, LAMBDA c : c.op = "read")
  IN  [i \in 1..Len(r) |-> r[i].path]

\* the username the merged request carries ("" when it carries none)
User(l) == l.ident[3]

\* dispatch l ran the connection sequence from scratch: it began with a
\* connect on a new handle, and whatever it transmitted went over that handle
\* after the connect and, with a username, the authenticate had succeeded
FullSequence(l) ==
  /\ Len(l.calls) > 0
  /\ l.calls[1].op = "connect"
  /\ l.calls[1].h # l.pre.srv.id
  /\ \A i \in Ops(l, "send") :
       /\ l.calls[i].h = l.calls[1].h
       /\ l.calls[1].ok
       /\ User(l) # "" => \E j \in Ops(l, "login") : j < i /\ l.calls[j].ok

\* C1: from a fresh instance, two consecutive successful dispatches with equal
\* (host, port, username) make exactly one connect and one authenticate in
\* total (the authenticate being made when the request carries a username);
\* a dispatch that follows a successful one with another host runs the full
\* connect + authenticate sequence again before its transmit.
C1_SessionReuse ==
  /\ (prev.fresh /\ prev.outcome = "ok" /\ Outcome(last) = "ok" /\ last.ident = prev.ident)
       => /\ prev.connects + Count(last.calls, "connect") = 1
          /\ prev.auths + Count(last.calls, "login") = (IF User(last) # "" THEN 1 ELSE 0)
  /\ (prev.outcome = "ok" /\ last.valid /\ last.ident[1] # prev.ident[1])
       => FullSequence(last)

\* two equal dispatches were followed by one to another host: the second reused
\* the session of the first, the third connected and authenticated anew
C1_Witness ==
  /\ prev.outcome = "ok" /\ prev.connects = 0 /\ prev.auths = 0
  /\ User(last) # "" /\ prev.ident[3] = User(last)
  /\ Outcome(last) = "ok"
  /\ last.ident[1] # prev.ident[1]
  /\ Count(last.calls, "connect") = 1 /\ Count(last.calls, "login") = 1

\* C2: after a dispatch whose authenticate was rejected, the next dispatch
\* runs the full connect + authenticate sequence before any transmit and does
\* not transmit over the handle on which authentication failed.
C2_AuthFailureResetsSession ==
  /\ Outcome(last) = "login" => ~last.errors.none
  /\ (prev.outcome = "login" /\ last.valid)
       => /\ FullSequence(last)
          /\ \A i \in Ops(last, "send") :
               ~(last.calls[i].h = last.pre.srv.id /\ last.pre.srv.authFailed)

\* C3: after a dispatch whose connect failed, whatever the state before it,
\* the next dispatch re-establishes the connection from scratch before it
\* transmits.
C3_ConnectFailureResetsSession ==
  /\ Outcome(last) = "connect" => ~last.errors.none
  /\ (prev.outcome = "connect" /\ last.valid) => FullSequence(last)

\* C4: after a dispatch whose transmit failed with a disconnection, the next
\* dispatch with the same identity connects and authenticates anew.
C4_DisconnectResetsSession ==
  /\ Outcome(last) = "send_disconnected" => ~last.errors.none
  /\ (prev.outcome = "send_disconnected" /\ last.valid /\ last.ident = prev.ident)
       => FullSequence(last)

\* C5: a transmit the remote refuses returns an error and leaves the held
\* handle and the stored identity as they were when the transmit was made;
\* the next dispatch with the same identity makes no connect and no
\* authenticate and transmits over the same handle.
C5_RefusedKeepsSession ==
  /\ Outcome(last) = "send_refused"
       => /\ ~last.errors.none
          /\ \A i \in Ops(last, "send") : smtp_server.id = last.calls[i].h
          /\ smtp_server.conn
          /\ configuration = last.ident
          /\ Ops(last, "connect") = {}
               => smtp_server = last.pre.srv /\ configuration = last.pre.cfg
  /\ (prev.outcome = "send_refused" /\ last.valid /\ last.ident = prev.ident)
       => /\ Ops(last, "connect") = {}
          /\ Ops(last, "login") = {}
          /\ Ops(last, "send") # {}
          /\ \A i \in Ops(last, "send") : last.calls[i].h = last.pre.srv.id

C5_Witness ==
  /\ prev.outcome = "send_refused"
  /\ last.ident = prev.ident
  /\ Outcome(last) = "ok"
  /\ Ops(last, "connect") = {}

\* every call dispatch l made succeeded, and it ended with a transmit
AllSucceeded(l) ==
  /\ l.valid
  /\ \A i \in 1..Len(l.calls) : l.calls[i].ok
  /\ Len(l.calls) > 0
  /\ l.calls[Len(l.calls)].op = "send"

\* C6: whatever step of a dispatch fails (connect, authenticate, file read,
\* transmit by disconnection or refusal), the dispatch raises nothing and
\* returns a Response whose errors is None exactly when every step up to and
\* including the transmit succeeded, and a non-empty list otherwise.
C6_ResponseTotal ==
  last.ident # NoConfig
    => /\ ~last.raised
       /\ last.errors.none <=> AllSucceeded(last)
       /\ ~last.errors.none => Len(last.errors.list) > 0
       /\ last.errors.none => last.errors.list = <<>>

\* a dispatch that reused its session and could not read its attachment
C6_Witness ==
  /\ Outcome(last) = "read"
  /\ Ops(last, "connect") = {}
  /\ ~last.errors.none
  /\ ~last.raised

\* C7: a dispatch whose attachment cannot be read returns errors and makes no
\* transport call, whatever the session state before it.
C7_UnreadableAttachmentNoTransport ==
  Outcome(last) = "read"
    => /\ ~last.errors.none
       /\ \A i \in 1..Len(last.calls) : last.calls[i].op \notin TransportOps

\* C8 as stated: a request with ssl true and tls not true is rejected with a
\* dependency violation and makes no transport call.
C8_SslWithoutTlsRejected ==
  (Has(last.raw, "ssl") /\ last.raw["ssl"]
     /\ ~(Has(last.raw, "tls") /\ last.raw["tls"]))
    => /\ ~last.valid
       /\ last.errors.list = <<"dependency">>
       /\ last.calls = <<>>

\* C8 amended: the merged request always holds tls, so a request with ssl
\* true meets the dependency of ssl on tls whether or not it sets tls; it is
\* dispatched to the transport, which connects encrypted from the start.
C8_SslDependencyMetByDefault ==
  (Has(last.raw, "ssl") /\ last.raw["ssl"])
    => /\ DependencyViolations(merge_defaults(last.raw)) = {}
       /\ last.valid
       /\ Len(last.calls) > 0
       /\ Ops(last, "connect") # {} => smtp_server.mode = "ssl"

C8_Witness ==
  /\ Has(last.raw, "ssl") /\ last.raw["ssl"]
  /\ ~Has(last.raw, "tls")
  /\ Outcome(last) = "ok"
  /\ Ops(last, "connect") # {}

\* the merged request of the last dispatch
Merged(l) == merge_defaults(l.raw)

\* C9: in a dispatch that connects, the steps are ordered: with ssl the
\* handle is encrypted from the start and no upgrade is issued; with tls and
\* not ssl the upgrade comes right after the connect; the authenticate comes
\* after the connect and the upgrade, only with a username; the transmit comes
\* only after all of them succeeded.
C9_ConnectSequenceOrdered ==
  Ops(last, "connect") # {}
    => LET d == Merged(last)
           c == last.calls
           upgrade == d["tls"] /\ ~d["ssl"]
       IN  /\ Ops(last, "connect") = {1}
           /\ smtp_server.id = c[1].h
           /\ (smtp_server.mode = "ssl") <=> d["ssl"]
           /\ d["ssl"] => Ops(last, "starttls") = {}
           /\ ~upgrade => Ops(last, "starttls") = {}
           /\ (upgrade /\ c[1].ok) => Ops(last, "starttls") = {2}
           /\ Ops(last, "login") \subseteq (IF upgrade THEN {3} ELSE {2})
           /\ User(last) = "" => Ops(last, "login") = {}
           /\ (User(last) # "" /\ \A j \in 1..(IF upgrade THEN 2 ELSE 1) :
                                     j <= Len(c) /\ c[j].ok)
                => Ops(last, "login") # {}
           /\ \A i \in Ops(last, "login") \cup Ops(last, "send") :
                \A j \in 1..(i - 1) : c[j].ok
           /\ \A i \in Ops(last, "send") :
                /\ i = Len(c)
                /\ User(last) # "" => Ops(last, "login") # {}
                /\ upgrade => smtp_server.mode = "starttls"

C9_Witness ==
  /\ Merged(last)["tls"] /\ ~Merged(last)["ssl"]
  /\ User(last) # ""
  /\ Outcome(last) = "ok"
  /\ Len(last.calls) = 4
  /\ last.calls[2].op = "starttls" /\ last.calls[3].op = "login"

\* C10: _prepare_data applied to its own result changes nothing.
C10_PrepareDataIdempotent ==
  \A k \in 2..(Len(nd) - 1) : nd[k + 1] = nd[k]

C10_Witness ==
  /\ Len(nd) >= 3
  /\ IsList(nd[1]["to"])
  /\ GetStr(nd[1], "from_") # ""
  /\ ~IsList(nd[2]["to"])
  /\ ~Has(nd[2], "from_")

\* C11: when the merged request carries the alias "from_" (an e-mail address,
\* as its format demands), the normalized request has no "from_" and its
\* "from" is the alias's value, also where "from" was given; a request
\* without "from_" keeps its "from" as it was.
C11_AliasWins ==
  Len(nd) >= 2 =>
    LET x == nd[1]
        y == nd[2]
    IN  /\ (Has(x, "from_") /\ is_email(x["from_"])) =>
              /\ ~Has(y, "from_")
              /\ Has(y, "from")
              /\ y["from"] = x["from_"]
        /\ ~Has(x, "from_") =>
              /\ ~Has(y, "from_")
              /\ Has(y, "from") = Has(x, "from")
              /\ Has(x, "from") => y["from"] = x["from"]

C11_Witness ==
  /\ Len(nd) >= 2
  /\ Has(nd[1], "from") /\ Has(nd[1], "from_")
  /\ is_email(nd[1]["from_"])
  /\ nd[1]["from"] # nd[1]["from_"]
  /\ ~Has(nd[2], "from_")
  /\ nd[2]["from"] = nd[1]["from_"]

\* C14: one dispatch makes at most one connect, one authenticate and one
\* transmit attempt, and after a call that failed it makes no transport call.
C14_NothingRetried ==
  LET c == last.calls
  IN  /\ \A op \in {"connect", "login", "send"} : Cardinality(Ops(last, op)) <= 1
      /\ \A i \in 1..Len(c) :
            ~c[i].ok => \A j \in (i + 1)..Len(c) : c[j].op \notin TransportOps

C14_Witness ==
  /\ Outcome(last) = "send_disconnected"
  /\ Cardinality(Ops(last, "connect")) = 1
  /\ Cardinality(Ops(last, "login")) = 1
  /\ Cardinality(Ops(last, "send")) = 1
  /\ ~last.calls[Len(last.calls)].ok

\* C17: whenever the instance holds a handle and a stored identity, the held
\* handle is connected to the host and port of that identity.
C17_IdentityDescribesHandle ==
  (smtp_server.id # 0 /\ configuration # NoConfig) =>
    /\ smtp_server.target = <<configuration[1], configuration[2]>>

\* C15: "attachments" given as one path string makes the dispatch read that
\* one file, the whole string being its path, and attach one part named so.
C15_ScalarAttachmentIsOnePath ==
  (last.valid /\ Has(last.raw, "attachments") /\ ~IsList(last.raw["attachments"])) =>
    LET path == last.raw["attachments"].v
    IN  /\ \A i \in 1..Len(ReadPaths(last)) : ReadPaths(last)[i] = path
        /\ Len(ReadPaths(last)) <= 1
        /\ Outcome(last) = "ok" => last.sent = << <<"body">>, path >>

\* C16: with a list of n paths the transmit comes after n reads that
\* succeeded, the payload is the body part followed by the n attachment parts
\* in the order of the list, and a read that fails leaves the transmit out.
C16_NoPartialDelivery ==
  (last.valid /\ Has(last.raw, "attachments") /\ IsList(last.raw["attachments"])) =>
    LET paths == last.raw["attachments"].v
        c == last.calls
    IN  /\ \A i \in Ops(last, "send") :
              /\ ReadPaths(last) = paths
              /\ \A j \in Ops(last, "read") : j < i /\ c[j].ok
              /\ c[i].ok => last.sent = << <<"body">> >> \o paths
        /\ (\E j \in Ops(last, "read") : ~c[j].ok) =>
              Ops(last, "send") = {} /\ last.sent = <<>>

C16_Witness ==
  /\ last.valid /\ Has(last.raw, "attachments") /\ IsList(last.raw["attachments"])
  /\ Outcome(last) = "ok"
  /\ last.sent = << <<"body">>, <<"b">>, <<"a">> >>
  /\ Cardinality(Ops(last, "read")) = 2

\* C18: a dispatch that follows a successful one and has its session identity
\* (host, port, username), whatever its password, tls and ssl, makes no
\* connect, no upgrade and no authenticate: it transmits over the held handle,
\* which stays encrypted and authenticated as the earlier request left it.
C18_ReuseIgnoresPasswordAndEncryption ==
  (prev.outcome = "ok" /\ last.valid /\ last.ident = prev.ident) =>
    /\ \A op \in {"connect", "starttls", "login"} : Ops(last, op) = {}
    /\ Ops(last, "send") # {}
    /\ \A i \in Ops(last, "send") : last.calls[i].h = last.pre.srv.id
    /\ smtp_server.id = last.pre.srv.id
    /\ smtp_server.target = last.pre.srv.target
    /\ smtp_server.mode = last.pre.srv.mode
    /\ smtp_server.auth = last.pre.srv.auth

C18_Witness ==
  /\ prev.outcome = "ok" /\ last.ident = prev.ident
  /\ Outcome(last) = "ok"
  /\ Ops(last, "connect") = {}
  /\ smtp_server.auth = <<"u1", "p1">> /\ last.raw["password"] = "p2"
  /\ smtp_server.mode = "plain" /\ Merged(last)["ssl"] /\ Merged(last)["tls"]

\* C13: the instance has at most one handle that is open and not released: a
\* handle it replaced is not open next to the one that replaced it.
C13_AtMostOneLiveHandle ==
  ~(unreleased /\ smtp_server.conn)

\* the handle a payload went over is connected to the host and port of the
\* payload's request and logged in, if at all, with its username
OverOwnHandle(d) ==
  /\ d.over.target = <<d.by[1], d.by[2]>>
  /\ d.over.auth # <<>> => d.over.auth[1] = d.by[3]

\* C12: when every dispatch on the shared instance is one critical section,
\* each payload transmitted goes over a handle established for the identity
\* of its own request; without exclusive access a payload can go over the
\* handle established for the other caller's identity (the witness).
C12_ExclusiveDispatchUsesOwnHandle ==
  (exclusive /\ delivered # NoDelivery) => OverOwnHandle(delivered)

C12_Witness ==
  /\ ~exclusive
  /\ delivered.by = get_configuration(ThreadData(1))
  /\ delivered.over.target = <<"mail.example", DEFAULT_PORT>>
  /\ delivered.over.auth = <<"u1", "p1">>

====
